---- MODULE Spec2Model ----
(***************************************************************************)
(* Model of the ProfAI WebSocket audio-streaming engine                    *)
(* (websocket_server.py, services/audio_service.py,                        *)
(* services/elevenlabs_service.py, services/sarvam_service.py).            *)
(*                                                                         *)
(* One Session per accepted connection.  Each Session runs the message     *)
(* loop ProfAIAgent.process_messages, which dispatches every decoded       *)
(* message to a handler coroutine.  A step of the model is the code that   *)
(* runs between two suspension points of the coroutine: one socket write,  *)
(* one socket read, or one call of an external collaborator or provider.   *)
(* A socket write on a closed socket raises ConnectionClosed; where that   *)
(* exception goes is given by the try/except nesting of the source.        *)
(***************************************************************************)
EXTENDS Integers, Sequences, FiniteSets, TLC

\* ---------------------------------------------------------------- bounds
\* Messages read by all Sessions together.
MaxRequests == 2
\* Audio chunks one provider stream yields for one text.
MaxChunks == 2
\* Half seconds of wall-clock time that pass.
MaxTime == 3
\* Background jobs the upload endpoint creates.
MaxJobs == 2

\* --------------------------------------------------------------- domains
Sessions == {"s1", "s2"}

\* Close codes the peer closes with: 1000 (OK) and 1006 (abnormal).  A socket
\* that is still open has close code 0.
CloseCodes == {1000, 1006}

Handlers ==
  {"ping", "chat_with_audio", "start_class", "audio_only",
   "transcribe_audio", "set_language", "get_metrics"}

\* Inbound messages that never reach a handler.
BadMessages == {"bad_json", "non_dict", "no_type", "unknown_type"}

Languages == {"en-IN", "hi-IN"}

\* services_available as built by ProfAIAgent.__init__; the constructors
\* depend on process-wide configuration, so every Session gets the same.
\* (The teaching entry only decides whether the teaching collaborator or the
\* local template produces the lesson text; both end at the same write.)
AllServices == [chat |-> TRUE, audio |-> TRUE]
ServiceConfigs ==
  { AllServices,
    [chat |-> FALSE, audio |-> TRUE],
    [chat |-> TRUE,  audio |-> FALSE] }

\* AudioService.tts_provider after __init__.
TtsProviders == {"elevenlabs", "sarvam"}

\* Byte sizes of the audio frames a provider stream carries; a frame may be
\* empty.
FrameSizes == {0, 1, 2}

\* The language field of a request: a language, or no such field.
LanguageFields == Languages \cup {"omitted"}

\* Handlers that read the language field with current_language as default.
LangHandlers ==
  {"chat_with_audio", "start_class", "audio_only", "transcribe_audio"}

\* A loaded course: sub-topic count of each module, or not a course at all
\* (the loader returned None).
Courses ==
  { [valid |-> TRUE,  modules |-> <<2, 1>>],
    [valid |-> TRUE,  modules |-> <<>>],
    [valid |-> FALSE, modules |-> <<>>] }

Indices == {-1, 0, 2}

VARIABLES
  services,          \* ProfAIAgent.services_available
  tts_provider,      \* AudioService.tts_provider
  frame_sizes,       \* byte sizes of the audio frames the provider sends
  request_languages, \* language fields the clients put into their requests
  sock,              \* per Session: 0 while open, else the close code
  loop,              \* per Session: position of process_messages
  pc,                \* per Session: position of the running handler
  handler,           \* per Session: kind of the message being processed
  active,            \* per Session: handlers dispatched and not returned
  current_language,  \* ProfAIAgent.current_language
  request_language,  \* per Session: data.get("language") of the message
  language,          \* handler local language
  total_requests,    \* conversation_metrics["total_requests"]
  errors,            \* conversation_metrics["errors"]
  chunk_count,       \* handler local chunk_count
  first_chunk_sent,  \* handler local first_chunk_sent
  job,               \* per Session: state of the StreamJob
  gen,               \* per Session: position of stream_audio_from_text
  received,          \* per Session: chunks the provider stream yielded
  attempts,          \* per Session: provider attempts of the job
  audio_start_time,  \* handler local audio_start_time
  first_audio_latency, \* handler local first_audio_latency
  total_audio_size,  \* handler local total_audio_size
  audio_chunk,       \* per Session: len(audio_chunk) of the chunk in hand
  skipped,           \* per Session: an empty provider frame was dropped
  out,               \* per Session: events written for this message
  closedSeen,        \* per Session: a read/write has raised ConnectionClosed
  sendAfterClosed,   \* per Session: a write was attempted after that
  failed,            \* per Session: this request took a failure path
  nread,             \* messages read so far by all Sessions
  arg,               \* the call of a helper function under examination
  ret,               \* what that call returned
  now,               \* time.time(), in milliseconds
  client_id,         \* per Session: the seconds in ProfAIWebSocketWrapper.client_id
  _jobs,             \* JobTracker._jobs
  task               \* per job: position of its process_pdfs_async task

pure == <<arg, ret>>
\* What the message loop, the handlers and the helpers leave alone.
aside == <<now, client_id, _jobs, task>>
config == <<services, tts_provider, frame_sizes, request_languages>>
asked == <<request_language, language>>
conn == <<sock, closedSeen, sendAfterClosed>>
ctl == <<loop, pc, handler, active>>
metrics == <<total_requests, errors>>
timing == <<audio_start_time, first_audio_latency>>
sizes == <<total_audio_size, audio_chunk, skipped>>
jobvars ==
  <<chunk_count, first_chunk_sent, job, gen, received, attempts, timing,
    sizes>>
vars ==
  <<services, tts_provider, frame_sizes, request_languages, sock, loop, pc,
    handler, active, current_language, request_language, language,
    total_requests, errors, chunk_count,
    first_chunk_sent, job, gen, received, attempts, audio_start_time,
    first_audio_latency, total_audio_size, audio_chunk, skipped, out,
    closedSeen, sendAfterClosed, failed, nread, arg, ret, now, client_id,
    _jobs, task>>

\* ---------------------------------------------------------------- events
\* The request_id the client puts on every request it sends; an event that
\* does not echo it has request_id "".
RequestId == "r1"

\* An event as the client sees it.  The error field tells a timeout message
\* from the other error messages.
Ev(t) ==
  [type |-> t, chunk_id |-> 0, is_first_chunk |-> FALSE, total_chunks |-> 0,
   request_id |-> "", error |-> "", size |-> 0, total_size |-> 0,
   first_chunk_latency |-> 0]

ChunkEv(id, first, len) ==
  [Ev("audio_chunk") EXCEPT
     !.chunk_id = id, !.is_first_chunk = first, !.size = len,
     !.request_id = RequestId]

CompleteEv(n, total, latency) ==
  [Ev("audio_generation_complete") EXCEPT
     !.total_chunks = n, !.total_size = total,
     !.first_chunk_latency = latency, !.request_id = RequestId]

\* ------------------------------------------------- closure classification
\* websocket_server.is_normal_closure on a ConnectionClosed with this code.
is_normal_closure(code) == code \in {1000, 1001}

AbnormalInc(code) == IF is_normal_closure(code) THEN 0 ELSE 1

\* ------------------------------------------------------- control positions
\* Where a coroutine stands when it is not at a pc of its own.
Terminals == {"RETURN", "RAISE_CC", "FATAL", "BREAK"}
\*   RETURN    the handler (or the loop iteration) ends normally
\*   RAISE_CC  ConnectionClosed leaves the handler and reaches the loop's
\*             `except ConnectionClosed` (websocket_server.py:255)
\*   FATAL     the exception leaves the while loop (websocket_server.py:277)
\*   BREAK     the loop's own error write failed (websocket_server.py:273)

\* pcs at which the coroutine writes one event to the socket, outside the
\* audio loop.
LoopSendPcs == {"lp_err_notype", "lp_err_unknown", "lp_err_json", "lp_err_exc"}
PingPcs == {"ping_send"}
ChatPcs ==
  {"cwa_err_nochat", "cwa_err_noaudio", "cwa_err_missing", "cwa_ack",
   "cwa_err_noresp", "cwa_text", "cwa_err_timeout", "cwa_err_chatfail",
   "cwa_audio_started"}
ClassPcs ==
  {"sc_ack", "sc_err_nofile", "sc_err_module", "sc_err_topic", "sc_info",
   "sc_err_loadfail", "sc_content", "sc_content_fb", "sc_audio_started",
   "sc_err_outer"}
AudioOnlyPcs == {"ao_err_missing", "ao_audio_started", "ao_err_outer"}
TranscribePcs ==
  {"tr_err_missing", "tr_started", "tr_err_empty", "tr_complete",
   "tr_err_timeout", "tr_err_fail", "tr_err_outer"}
LanguagePcs == {"sl_err_missing", "sl_set", "sl_err_outer"}
MetricsPcs == {"gm_send", "gm_err_outer"}

\* pcs that start the audio loop when their write succeeds.
AudioStartPcs == {"cwa_audio_started", "sc_audio_started", "ao_audio_started"}

\* A loop that answers invalid JSON with an event of its own kind.
EventAtInvalidJson(p) ==
  CASE p = "ping_send" -> "pong"
    [] p = "cwa_ack" -> "processing_started"
    [] p = "cwa_text" -> "text_response"
    [] p \in AudioStartPcs -> "audio_generation_started"
    [] p = "sc_ack" -> "class_starting"
    [] p = "sc_info" -> "course_info"
    [] p \in {"sc_content", "sc_content_fb"} -> "teaching_content"
    [] p = "tr_started" -> "transcription_started"
    [] p = "tr_complete" -> "transcription_complete"
    [] p = "sl_set" -> "language_set"
    [] p = "gm_send" -> "metrics_response"
    [] p = "lp_err_json" -> "invalid_json"
    [] OTHER -> "error"

\* The event written at each pc.
EventAt(p) ==
  CASE p = "ping_send" -> "pong"
    [] p = "cwa_ack" -> "processing_started"
    [] p = "cwa_text" -> "text_response"
    [] p \in AudioStartPcs -> "audio_generation_started"
    [] p = "sc_ack" -> "class_starting"
    [] p = "sc_info" -> "course_info"
    [] p \in {"sc_content", "sc_content_fb"} -> "teaching_content"
    [] p = "tr_started" -> "transcription_started"
    [] p = "tr_complete" -> "transcription_complete"
    [] p = "sl_set" -> "language_set"
    [] p = "gm_send" -> "metrics_response"
    [] OTHER -> "error"

\* pcs whose send puts data.get("request_id", "") into the event.
EchoPcs ==
  {"cwa_ack", "cwa_text", "sc_ack", "sc_info", "sc_content", "sc_content_fb",
   "ao_audio_started", "tr_started", "tr_complete", "sl_set", "gm_send"}

\* pcs whose error message reports a collaborator timeout.
TimeoutPcs == {"cwa_err_timeout", "tr_err_timeout"}

\* Error messages that do not name the timeout.
EvAtGenericError(p) ==
  [Ev(EventAt(p)) EXCEPT !.request_id = IF p \in EchoPcs THEN RequestId ELSE ""]

\* The event the send at pc p writes.
EvAt(p) ==
  [Ev(EventAt(p)) EXCEPT
     !.request_id = IF p \in EchoPcs THEN RequestId ELSE "",
     !.error = IF p \in TimeoutPcs THEN "timeout" ELSE ""]

\* A chat handler that returns once the text response is written.
OkNextTextOnly(p) ==
  CASE p = "cwa_ack" -> "cwa_ask"
    [] p = "sc_ack" -> "sc_load"
    [] p = "sc_info" -> "sc_gen"
    [] p \in {"sc_content", "sc_content_fb"} -> "sc_audio_started"
    [] p = "tr_started" -> "tr_call"
    [] p \in AudioStartPcs -> "job_pull"
    [] OTHER -> "RETURN"

\* Where the coroutine goes when the write at p succeeds.
OkNext(p) ==
  CASE p = "cwa_ack" -> "cwa_ask"
    [] p = "cwa_text" -> "cwa_audio_started"
    [] p = "sc_ack" -> "sc_load"
    [] p = "sc_info" -> "sc_gen"
    [] p \in {"sc_content", "sc_content_fb"} -> "sc_audio_started"
    [] p = "tr_started" -> "tr_call"
    [] p \in AudioStartPcs -> "job_pull"
    [] OTHER -> "RETURN"

\* Where the coroutine goes when the write at p raises ConnectionClosed:
\* the innermost enclosing `except` that matches the exception.
ClosedNext(p) ==
  CASE \* process_messages: try body, except-clause, guarded except-clause
       p \in {"lp_err_notype", "lp_err_unknown"} -> "RAISE_CC"
    [] p = "lp_err_json" -> "FATAL"
    [] p = "lp_err_exc" -> "BREAK"
       \* handle_ping has no try
    [] p = "ping_send" -> "RAISE_CC"
       \* handle_chat_with_audio: outer `except ConnectionClosed` returns
    [] p \in {"cwa_err_nochat", "cwa_err_noaudio", "cwa_err_missing",
              "cwa_ack", "cwa_audio_started"} -> "RETURN"
       \* ... inner `except Exception` of the chat-service block
    [] p \in {"cwa_err_noresp", "cwa_text"} -> "cwa_err_chatfail"
       \* ... both inner error writes are wrapped in try/except
    [] p \in {"cwa_err_timeout", "cwa_err_chatfail"} -> "RETURN"
       \* handle_start_class: inner `except Exception` of the load block
    [] p \in {"sc_err_nofile", "sc_err_module", "sc_err_topic", "sc_info"}
         -> "sc_err_loadfail"
       \* ... inner `except Exception` of the teaching-content block
    [] p = "sc_content" -> "sc_content_fb"
       \* ... outer `except Exception`
    [] p \in {"sc_ack", "sc_err_loadfail", "sc_content_fb",
              "sc_audio_started"} -> "sc_err_outer"
    [] p = "sc_err_outer" -> "RAISE_CC"
       \* handle_audio_only: outer `except Exception`
    [] p \in {"ao_err_missing", "ao_audio_started"} -> "ao_err_outer"
    [] p = "ao_err_outer" -> "RAISE_CC"
       \* handle_transcribe_audio: inner, then outer `except Exception`
    [] p \in {"tr_err_empty", "tr_complete"} -> "tr_err_fail"
    [] p \in {"tr_err_missing", "tr_started", "tr_err_timeout",
              "tr_err_fail"} -> "tr_err_outer"
    [] p = "tr_err_outer" -> "RAISE_CC"
       \* handle_set_language / handle_get_metrics: outer `except Exception`
    [] p \in {"sl_err_missing", "sl_set"} -> "sl_err_outer"
    [] p = "sl_err_outer" -> "RAISE_CC"
    [] p = "gm_send" -> "gm_err_outer"
    [] p = "gm_err_outer" -> "RAISE_CC"
    [] OTHER -> "RAISE_CC"

\* What the except clauses on that way add to conversation_metrics["errors"].
ClosedInc(p, code) ==
  CASE \* handle_chat_with_audio outer `except ConnectionClosed`
       p \in {"cwa_err_nochat", "cwa_err_noaudio", "cwa_err_missing",
              "cwa_ack", "cwa_audio_started"} -> AbnormalInc(code)
       \* outer `except Exception` of start_class and audio_only
    [] p \in {"sc_ack", "sc_err_loadfail", "sc_content_fb",
              "sc_audio_started", "ao_err_missing", "ao_audio_started"} -> 1
       \* the loop's `except ConnectionClosed`
    [] ClosedNext(p) = "RAISE_CC" -> AbnormalInc(code)
    [] OTHER -> 0

\* ------------------------------------------------------------- job tracker
\* The job ids uuid4 can return.
JobIds == 1..MaxJobs

\* An id under which JobTracker._jobs holds nothing.
NoJob == [status |-> "absent", progress |-> 0, result |-> <<>>, error |-> <<>>]

\* No task exists for the job.
NoTask == [pc |-> "none", returned |-> <<>>, raised |-> <<>>]

\* ---------------------------------------------------------------- the clock
\* int(t) of a time in milliseconds held as seconds: the whole seconds.
int(t) == t \div 1000

\* A Session that does not exist has no client_id.
NoId == -1

\* ------------------------------------------------------------ initial state
\* The state after websocket_handler has accepted the connections in
\* `accepted` and built a wrapper and an agent for each.
InitWith(accepted) ==
  /\ services \in ServiceConfigs
  /\ tts_provider \in TtsProviders
  /\ services # AllServices => tts_provider = "elevenlabs"
  /\ sock = [s \in Sessions |-> 0]
  /\ loop = [s \in Sessions |-> IF s \in accepted THEN "ready" ELSE "none"]
  /\ pc = [s \in Sessions |-> "idle"]
  /\ handler = [s \in Sessions |-> "none"]
  /\ active = [s \in Sessions |-> 0]
  /\ current_language = [s \in Sessions |-> "en-IN"]
  /\ request_language = [s \in Sessions |-> "omitted"]
  /\ language = [s \in Sessions |-> "none"]
  /\ total_requests = [s \in Sessions |-> 0]
  /\ errors = [s \in Sessions |-> 0]
  /\ chunk_count = [s \in Sessions |-> 0]
  /\ first_chunk_sent = [s \in Sessions |-> FALSE]
  /\ job = [s \in Sessions |-> "NONE"]
  /\ gen = [s \in Sessions |-> "idle"]
  /\ received = [s \in Sessions |-> 0]
  /\ attempts = [s \in Sessions |-> <<>>]
  /\ audio_start_time = [s \in Sessions |-> 0]
  /\ first_audio_latency = [s \in Sessions |-> 0]
  /\ total_audio_size = [s \in Sessions |-> 0]
  /\ audio_chunk = [s \in Sessions |-> 0]
  /\ skipped = [s \in Sessions |-> FALSE]
  /\ out = [s \in Sessions |-> <<>>]
  /\ closedSeen = [s \in Sessions |-> FALSE]
  /\ sendAfterClosed = [s \in Sessions |-> FALSE]
  /\ failed = [s \in Sessions |-> FALSE]
  /\ nread = 0
  /\ now = 0
  /\ client_id = [s \in Sessions |-> IF s \in accepted THEN int(now) ELSE NoId]
  /\ _jobs = [j \in JobIds |-> NoJob]
  /\ task = [j \in JobIds |-> NoTask]

\* No helper function is being examined.
NoCall ==
  /\ arg = [fn |-> "none"]
  /\ ret = [done |-> FALSE]

\* Providers that send frames of every size, clients that name a language in
\* a request or leave it out.
Varied ==
  /\ frame_sizes = FrameSizes
  /\ request_languages = LanguageFields

\* Providers that send frames of one size, clients that leave the language
\* to set_language.
Plain ==
  /\ frame_sizes = {1}
  /\ request_languages = {"omitted"}

\* One connection.
Init == InitWith({"s1"}) /\ NoCall /\ Varied

\* Two connections served concurrently by the default deployment: every
\* service constructed, config.AUDIO_TTS_PROVIDER left at "elevenlabs".
InitPair ==
  /\ InitWith(Sessions)
  /\ services = AllServices
  /\ tts_provider = "elevenlabs"
  /\ Plain
  /\ NoCall

\* ------------------------------------------------------- socket primitives
Connected(s) == sock[s] = 0

\* ProfAIWebSocketWrapper.send on an open socket: the event is written.
Written(s, ev) ==
  /\ Connected(s)
  /\ out' = [out EXCEPT ![s] = Append(@, ev)]
  /\ UNCHANGED <<sock, closedSeen, sendAfterClosed>>

\* ProfAIWebSocketWrapper.send on a closed socket: ConnectionClosed is logged
\* and re-raised, nothing is written.
Refused(s) ==
  /\ ~Connected(s)
  /\ closedSeen' = [closedSeen EXCEPT ![s] = TRUE]
  /\ sendAfterClosed' = [sendAfterClosed EXCEPT ![s] = @ \/ closedSeen[s]]
  /\ UNCHANGED sock

\* The handler locals of Session s hold their initial values again.
ResetJob(s) ==
  /\ chunk_count' = [chunk_count EXCEPT ![s] = 0]
  /\ first_chunk_sent' = [first_chunk_sent EXCEPT ![s] = FALSE]
  /\ job' = [job EXCEPT ![s] = "NONE"]
  /\ gen' = [gen EXCEPT ![s] = "idle"]
  /\ received' = [received EXCEPT ![s] = 0]
  /\ attempts' = [attempts EXCEPT ![s] = <<>>]
  /\ audio_start_time' = [audio_start_time EXCEPT ![s] = 0]
  /\ first_audio_latency' = [first_audio_latency EXCEPT ![s] = 0]
  /\ total_audio_size' = [total_audio_size EXCEPT ![s] = 0]
  /\ audio_chunk' = [audio_chunk EXCEPT ![s] = 0]
  /\ skipped' = [skipped EXCEPT ![s] = FALSE]

\* process_messages ends (`finally: cleanup()`): the request in progress and
\* its locals are gone, the counters of conversation_metrics remain.
Forget(s) ==
  /\ out' = [out EXCEPT ![s] = <<>>]
  /\ failed' = [failed EXCEPT ![s] = FALSE]
  /\ ResetJob(s)

Stops(target) == target \in Terminals \ {"RETURN"}

\* A loop that ends whenever an iteration ends.
LoopAfterOneShot(target) == "stopped"

\* Where the `while True` loop stands after an iteration ended at `target`:
\* back at recv, unless the iteration broke or raised out of the loop.
LoopAfter(target) == IF target = "RETURN" THEN "recv" ELSE "stopped"

\* The coroutine of Session s moves to `target`; einc and tinc are what the
\* code on the way adds to the errors and total_requests counters.
Route(s, target, einc, tinc) ==
  /\ errors' = [errors EXCEPT ![s] = @ + einc]
  /\ total_requests' = [total_requests EXCEPT ![s] = @ + tinc]
  /\ pc' = [pc EXCEPT ![s] = IF target \in Terminals THEN "idle" ELSE target]
  /\ loop' = [loop EXCEPT ![s] =
                IF target \in Terminals THEN LoopAfter(target) ELSE @]
  /\ active' = [active EXCEPT ![s] =
                  IF target \in Terminals /\ handler[s] \in Handlers
                  THEN @ - 1 ELSE @]
  /\ handler' = [handler EXCEPT ![s] = IF Stops(target) THEN "none" ELSE @]

\* One `await self.websocket.send(...)` outside the audio loop.
SimpleSend(s) ==
  /\ \/ /\ Written(s, EvAt(pc[s]))
        /\ Route(s, OkNext(pc[s]), 0, 0)
        /\ UNCHANGED <<jobvars, failed>>
     \/ /\ Refused(s)
        /\ Route(s, ClosedNext(pc[s]), ClosedInc(pc[s], sock[s]), 0)
        /\ IF Stops(ClosedNext(pc[s]))
           THEN Forget(s)
           ELSE UNCHANGED <<out, jobvars, failed>>
  /\ UNCHANGED <<pure, aside, asked, config, current_language, nread>>

\* The peer closes the connection with a close code.
ClientClose(s) ==
  /\ Connected(s)
  /\ loop[s] \notin {"none", "stopped"}
  /\ \E code \in CloseCodes : sock' = [sock EXCEPT ![s] = code]
  /\ UNCHANGED <<pure, aside, asked, config, ctl, metrics, jobvars, current_language, out,
                 closedSeen, sendAfterClosed, failed, nread>>

\* ------------------------------------------------------- process_messages
\* The connection_ready write before the loop; a failure leaves the loop
\* through the outer `except Exception`.
process_messages_ready(s) ==
  /\ loop[s] = "ready"
  /\ \/ /\ Written(s, Ev("connection_ready"))
        /\ loop' = [loop EXCEPT ![s] = "recv"]
        /\ UNCHANGED <<jobvars, failed>>
     \/ /\ Refused(s)
        /\ loop' = [loop EXCEPT ![s] = "stopped"]
        /\ Forget(s)
  /\ UNCHANGED <<pure, aside, asked, config, pc, handler, active, metrics, current_language,
                 nread>>

\* An audio_only handler that does not check its text field.
FirstPcNoTextCheck(m, hasField, svc) ==
  CASE m = "bad_json" -> "lp_err_json"
    [] m = "non_dict" -> "lp_err_exc"
    [] m = "no_type" -> "lp_err_notype"
    [] m = "unknown_type" -> "lp_err_unknown"
    [] m = "ping" -> "ping_send"
    [] m = "chat_with_audio" ->
         IF ~svc.chat THEN "cwa_err_nochat"
         ELSE IF ~svc.audio THEN "cwa_err_noaudio"
         ELSE IF ~hasField THEN "cwa_err_missing"
         ELSE "cwa_ack"
    [] m = "start_class" -> "sc_ack"
    [] m = "audio_only" -> "ao_audio_started"
    [] m = "transcribe_audio" ->
         IF ~hasField THEN "tr_err_missing" ELSE "tr_started"
    [] m = "set_language" ->
         IF ~hasField THEN "sl_err_missing" ELSE "sl_set"
    [] m = "get_metrics" -> "gm_send"

\* The handler's code up to its first await: availability and required-field
\* checks.  hasField says whether the required field of the message is
\* present and non-empty.
FirstPc(m, hasField, svc) ==
  CASE m = "bad_json" -> "lp_err_json"
    [] m = "non_dict" -> "lp_err_exc"
    [] m = "no_type" -> "lp_err_notype"
    [] m = "unknown_type" -> "lp_err_unknown"
    [] m = "ping" -> "ping_send"
    [] m = "chat_with_audio" ->
         IF ~svc.chat THEN "cwa_err_nochat"
         ELSE IF ~svc.audio THEN "cwa_err_noaudio"
         ELSE IF ~hasField THEN "cwa_err_missing"
         ELSE "cwa_ack"
    [] m = "start_class" -> "sc_ack"
    [] m = "audio_only" ->
         IF ~hasField THEN "ao_err_missing" ELSE "ao_audio_started"
    [] m = "transcribe_audio" ->
         IF ~hasField THEN "tr_err_missing" ELSE "tr_started"
    [] m = "set_language" ->
         IF ~hasField THEN "sl_err_missing" ELSE "sl_set"
    [] m = "get_metrics" -> "gm_send"

\* A loop that starts the handler as a task and goes back to recv.
AfterDispatchNoAwait(m) == IF m \in Handlers THEN "recv" ELSE "busy"

\* What the loop does once it has dispatched a handler: it awaits it.
AfterDispatch(m) == "busy"

\* recv raised ConnectionClosed: count abnormal closures, leave the loop.
RecvClosed(s) ==
  /\ ~Connected(s)
  /\ closedSeen' = [closedSeen EXCEPT ![s] = TRUE]
  /\ errors' = [errors EXCEPT ![s] = @ + AbnormalInc(sock[s])]
  /\ loop' = [loop EXCEPT ![s] = "stopped"]
  /\ handler' = [handler EXCEPT ![s] = "none"]
  /\ Forget(s)
  /\ UNCHANGED <<pure, aside, asked, config, sock, sendAfterClosed, pc, active, total_requests,
                 current_language, nread>>

\* pcs of the service availability checks, which precede the handler's
\* reading of the message fields.
AvailabilityPcs == {"cwa_err_nochat", "cwa_err_noaudio"}

\* A handler that falls back to the default language of a new Session.
LanguageOfDefault(field, current) ==
  IF field = "omitted" THEN "en-IN" ELSE field

\* data.get("language", self.current_language).
LanguageOf(field, current) == IF field = "omitted" THEN current ELSE field

\* recv returned message m: decode, route, run the handler to its first
\* await.
RecvMessage(s) ==
  /\ Connected(s)
  /\ nread < MaxRequests
  /\ \E m \in Handlers \cup BadMessages, hasField \in BOOLEAN,
        lang \in LanguageFields :
       LET first == FirstPc(m, hasField, services) IN
       /\ m = "set_language" => (hasField <=> lang \in Languages)
       /\ m \in LangHandlers => lang \in request_languages
       /\ m \notin LangHandlers \cup {"set_language"} => lang = "omitted"
       /\ m \in {"ping", "start_class", "get_metrics"} \cup BadMessages
            => hasField
       /\ handler' = [handler EXCEPT ![s] = m]
       /\ pc' = [pc EXCEPT ![s] = first]
       /\ loop' = [loop EXCEPT ![s] = AfterDispatch(m)]
       /\ active' = [active EXCEPT ![s] = IF m \in Handlers THEN @ + 1 ELSE @]
       /\ current_language' =
            [current_language EXCEPT ![s] = IF first = "sl_set" THEN lang ELSE @]
       /\ request_language' = [request_language EXCEPT ![s] = lang]
       /\ language' =
            [language EXCEPT ![s] =
               IF m = "set_language" THEN lang
               ELSE IF m \in LangHandlers /\ first \notin AvailabilityPcs
               THEN LanguageOf(lang, current_language[s])
               ELSE "none"]
       /\ failed' = [failed EXCEPT ![s] = EventAt(first) = "error"]
  /\ nread' = nread + 1
  /\ out' = [out EXCEPT ![s] = <<>>]
  /\ ResetJob(s)
  /\ UNCHANGED <<pure, aside, config, conn, metrics>>

process_messages_recv(s) ==
  /\ loop[s] = "recv"
  /\ (RecvClosed(s) \/ RecvMessage(s))

\* The loop's own error events (no type, unknown type, invalid JSON,
\* unexpected exception).
process_messages_error(s) ==
  /\ pc[s] \in LoopSendPcs
  /\ SimpleSend(s)

\* ------------------------------------------------------------ handle_ping
handle_ping(s) ==
  /\ pc[s] \in PingPcs
  /\ SimpleSend(s)

\* ------------------------------------------------------ the audio pipeline
\* The first provider attempt of AudioService.stream_audio_from_text.
FirstAttempt(provider) ==
  IF provider = "elevenlabs" THEN "elevenlabs_stream" ELSE "sarvam_stream"

\* The attempt a provider adapter makes itself when its stream failed:
\* ElevenLabsService.text_to_speech (REST) and
\* SarvamService.generate_audio_ultra_fast.
BatchAttempt(provider) ==
  IF provider = "elevenlabs" THEN "elevenlabs_rest" ELSE "sarvam_batch"

Attempt(p, s) == [p |-> p, delivered |-> chunk_count[s]]

\* The write of audio_generation_started succeeded: the handler enters the
\* audio `try` and iterates stream_audio_from_text.  Without an audio service
\* the attribute access on None raises and `except Exception` takes over.
StartAudio(s) ==
  /\ pc[s] \in AudioStartPcs
  /\ \/ /\ Written(s, EvAt(pc[s]))
        /\ IF services.audio
           THEN /\ Route(s, "job_pull", 0, 0)
                /\ job' = [job EXCEPT ![s] = "RUNNING"]
                /\ gen' = [gen EXCEPT ![s] = "stream"]
                /\ attempts' =
                     [attempts EXCEPT ![s] =
                        <<Attempt(FirstAttempt(tts_provider), s)>>]
                /\ UNCHANGED failed
           ELSE /\ Route(s, "job_err", 1, 0)
                /\ job' = [job EXCEPT ![s] = "FAILED"]
                /\ failed' = [failed EXCEPT ![s] = TRUE]
                /\ UNCHANGED <<gen, attempts>>
        /\ audio_start_time' = [audio_start_time EXCEPT ![s] = now]
        /\ UNCHANGED <<chunk_count, first_chunk_sent, received,
                       first_audio_latency, sizes>>
     \/ /\ Refused(s)
        /\ Route(s, ClosedNext(pc[s]), ClosedInc(pc[s], sock[s]), 0)
        /\ UNCHANGED <<out, jobvars, failed>>
  /\ UNCHANGED <<pure, aside, asked, config, current_language, nread>>

\* Where the handler goes when the generator is exhausted.
AfterStreamEnd(n) == "job_complete"

\* A provider produced one non-empty chunk: the generator yields it and the
\* handler counts it.
YieldChunk(s, nextGen) ==
  /\ \E len \in frame_sizes \ {0} :
       /\ audio_chunk' = [audio_chunk EXCEPT ![s] = len]
       /\ total_audio_size' = [total_audio_size EXCEPT ![s] = @ + len]
  /\ chunk_count' = [chunk_count EXCEPT ![s] = @ + 1]
  /\ gen' = [gen EXCEPT ![s] = nextGen]
  /\ pc' = [pc EXCEPT ![s] = "job_send"]
  /\ UNCHANGED <<attempts, failed, skipped>>

\* A handler that counts a frame without audio as a chunk.
SkipEmptyCounted(s) ==
  /\ 0 \in frame_sizes
  /\ skipped' = [skipped EXCEPT ![s] = TRUE]
  /\ chunk_count' = [chunk_count EXCEPT ![s] = @ + 1]
  /\ UNCHANGED <<pc, gen, received, attempts, failed, total_audio_size,
                 audio_chunk>>

\* The provider sent a frame without audio: the `if audio_bytes` /
\* `len(audio_chunk) > 0` tests drop it before it reaches the handler.
SkipEmpty(s) ==
  /\ 0 \in frame_sizes
  /\ skipped' = [skipped EXCEPT ![s] = TRUE]
  /\ UNCHANGED <<pc, gen, chunk_count, received, attempts, failed,
                 total_audio_size, audio_chunk>>

\* The generator returns without a further chunk.
EndStream(s, how) ==
  /\ gen' = [gen EXCEPT ![s] = how]
  /\ pc' = [pc EXCEPT ![s] = AfterStreamEnd(chunk_count[s])]
  /\ failed' = [failed EXCEPT ![s] = @ \/ how = "exhausted"]
  /\ UNCHANGED <<chunk_count, attempts, received, sizes>>

\* The adapter's stream failed: its `except Exception` re-synthesises the
\* whole text, whatever was already yielded.
FallBack(s) ==
  /\ gen' = [gen EXCEPT ![s] = "batch"]
  /\ attempts' =
       [attempts EXCEPT ![s] = Append(@, Attempt(BatchAttempt(tts_provider), s))]
  /\ UNCHANGED <<pc, chunk_count, received, failed, sizes>>

\* ElevenLabsService.text_to_speech_stream: one step of the generator.
text_to_speech_stream(s) ==
  /\ \/ /\ gen[s] = "stream"
        /\ \/ /\ received[s] < MaxChunks
              /\ received' = [received EXCEPT ![s] = @ + 1]
              /\ YieldChunk(s, "stream")
           \/ SkipEmpty(s)
           \/ \* is_final: zero bytes received forces the REST fallback
              IF received[s] = 0 THEN FallBack(s) ELSE EndStream(s, "end")
           \/ \* connect or receive error
              FallBack(s)
     \/ /\ gen[s] = "batch"
        /\ \/ YieldChunk(s, "last") /\ UNCHANGED received
           \/ EndStream(s, "exhausted")

\* SarvamService.stream_audio_generation: one step of the generator.
stream_audio_generation(s) ==
  /\ \/ /\ gen[s] = "stream"
        /\ \/ /\ received[s] < MaxChunks
              /\ received' = [received EXCEPT ![s] = @ + 1]
              /\ YieldChunk(s, "stream")
           \/ SkipEmpty(s)
           \/ EndStream(s, "end")
           \/ FallBack(s)
     \/ /\ gen[s] = "batch"
        /\ \/ YieldChunk(s, "last") /\ UNCHANGED received
           \/ EndStream(s, "exhausted")

\* AudioService.stream_audio_from_text: the handler's `async for` asks the
\* generator for the next chunk; the generator delegates to the adapter of
\* the configured provider.
stream_audio_from_text(s) ==
  /\ pc[s] = "job_pull"
  /\ IF tts_provider = "elevenlabs"
     THEN text_to_speech_stream(s)
     ELSE stream_audio_generation(s)
  /\ UNCHANGED <<pure, aside, asked, config, conn, loop, handler, active, metrics,
                 first_chunk_sent, job, timing, current_language, out,
                 nread>>

\* A chunk_id read before the counter was incremented.
ChunkIdStale(n) == n - 1

\* The chunk_id written for the chunk that made the counter n.
ChunkId(n) == n

\* An audio `try` whose `except Exception` clause catches the closure.
AudioClosedNextAsError(p) == "job_err"

\* Where ConnectionClosed raised by a write inside the audio `try` goes: the
\* `except ConnectionClosed` clause, which writes nothing.
AudioClosedNext(p) == "RETURN"

\* (time.time() - audio_start_time) * 1000, in milliseconds.
Elapsed(s) == now - audio_start_time[s]

\* The first_chunk_latency field of audio_generation_complete.
ReportedLatency(s) == IF first_chunk_sent[s] THEN Elapsed(s) ELSE 0

\* The audio loop shared by handle_chat_with_audio, handle_start_class and
\* handle_audio_only: relay one chunk, write the completion event, or write
\* the error event of `except Exception`; then update the request metrics.
audio_loop(s) ==
  /\ pc[s] \in {"job_send", "job_complete", "job_err"}
  /\ \/ /\ pc[s] = "job_send"
        /\ Written(s, ChunkEv(ChunkId(chunk_count[s]), ~first_chunk_sent[s],
                              audio_chunk[s]))
        /\ first_audio_latency' =
             [first_audio_latency EXCEPT ![s] =
                IF first_chunk_sent[s] THEN @ ELSE Elapsed(s)]
        /\ first_chunk_sent' = [first_chunk_sent EXCEPT ![s] = TRUE]
        /\ IF gen[s] = "last"
           THEN /\ gen' = [gen EXCEPT ![s] = "end"]
                /\ Route(s, AfterStreamEnd(chunk_count[s]), 0, 0)
           ELSE /\ Route(s, "job_pull", 0, 0)
                /\ UNCHANGED gen
        /\ UNCHANGED job
     \/ /\ pc[s] = "job_complete"
        /\ Written(s, CompleteEv(chunk_count[s], total_audio_size[s],
                                 ReportedLatency(s)))
        /\ job' = [job EXCEPT ![s] = "COMPLETE"]
        /\ Route(s, "RETURN", 0, 1)
        /\ UNCHANGED <<gen, first_chunk_sent, first_audio_latency>>
     \/ /\ pc[s] \in {"job_send", "job_complete"}
        /\ Refused(s)
        /\ UNCHANGED out
        /\ IF AudioClosedNext(pc[s]) = "RETURN"
           THEN /\ job' = [job EXCEPT ![s] = "ABORTED"]
                /\ Route(s, "RETURN", AbnormalInc(sock[s]), 1)
           ELSE /\ job' = [job EXCEPT ![s] = "FAILED"]
                /\ Route(s, AudioClosedNext(pc[s]), 1, 0)
        /\ UNCHANGED <<gen, first_chunk_sent, first_audio_latency>>
     \/ /\ pc[s] = "job_err"
        /\ \/ Written(s, Ev("error")) /\ Route(s, "RETURN", 0, 1)
           \/ Refused(s) /\ Route(s, "RETURN", 0, 0) /\ UNCHANGED out
        /\ UNCHANGED <<gen, first_chunk_sent, job, first_audio_latency>>
  /\ UNCHANGED <<pure, aside, asked, config, chunk_count, received, attempts,
                 audio_start_time, sizes, current_language, failed, nread>>

\* An external call returned; the handler goes to pc `target`.
Resume(s, target, isFailure) ==
  /\ pc' = [pc EXCEPT ![s] = target]
  /\ failed' = [failed EXCEPT ![s] = @ \/ isFailure]
  /\ UNCHANGED <<pure, aside, asked, config, conn, loop, handler, active, metrics, jobvars,
                 current_language, out, nread>>

\* ------------------------------------------------- handle_chat_with_audio
\* A handler that starts the audio without writing the answer.
AskOutcomeSkipsText(o) ==
  CASE o = "answer" -> "cwa_audio_started"
    [] o = "empty" -> "cwa_err_noresp"
    [] o = "timeout" -> "cwa_err_timeout"
    [] o = "error" -> "cwa_err_chatfail"

\* chat_service.ask_question under wait_for(30 s).
AskOutcome(o) ==
  CASE o = "answer" -> "cwa_text"
    [] o = "empty" -> "cwa_err_noresp"
    [] o = "timeout" -> "cwa_err_timeout"
    [] o = "error" -> "cwa_err_chatfail"

handle_chat_with_audio(s) ==
  \/ /\ pc[s] \in ChatPcs \ AudioStartPcs
     /\ SimpleSend(s)
  \/ /\ pc[s] = "cwa_ask"
     /\ \E o \in {"answer", "empty", "timeout", "error"} :
          Resume(s, AskOutcome(o), o # "answer")
  \/ /\ pc[s] = "cwa_audio_started"
     /\ StartAudio(s)

\* ------------------------------------------------------ handle_start_class
\* Python's seq[i]: defined for -len <= i < len.
PyIndexOk(seq, i) == i < Len(seq) /\ i >= 0 - Len(seq)
PyIndex(seq, i) == IF i >= 0 THEN seq[i + 1] ELSE seq[Len(seq) + i + 1]

\* The load-and-validate block: file check, load, index validation.
LoadOutcome(exists, course, mi, si) ==
  IF ~exists THEN "sc_err_nofile"
  ELSE IF ~course.valid THEN "sc_err_loadfail"
  ELSE IF mi >= Len(course.modules) THEN "sc_err_module"
  ELSE IF ~PyIndexOk(course.modules, mi) THEN "sc_err_loadfail"
  ELSE LET subs == PyIndex(course.modules, mi) IN
       IF si >= subs THEN "sc_err_topic"
       ELSE IF si < 0 - subs THEN "sc_err_loadfail"
       ELSE "sc_info"

\* module_index and sub_topic_index are fields of the message; the handler
\* uses them in the load block only, where the model draws them.
handle_start_class(s) ==
  \/ /\ pc[s] \in ClassPcs \ AudioStartPcs
     /\ SimpleSend(s)
  \/ /\ pc[s] = "sc_load"
     /\ \E o \in { LoadOutcome(exists, course, module_index, sub_topic_index) :
                     exists \in BOOLEAN, course \in Courses,
                     module_index \in Indices, sub_topic_index \in Indices } :
          Resume(s, o, o # "sc_info")
  \/ /\ pc[s] = "sc_gen"
     /\ Resume(s, "sc_content", FALSE)
  \/ /\ pc[s] = "sc_audio_started"
     /\ StartAudio(s)

\* ------------------------------------------------------- handle_audio_only
handle_audio_only(s) ==
  \/ /\ pc[s] \in AudioOnlyPcs \ AudioStartPcs
     /\ SimpleSend(s)
  \/ /\ pc[s] = "ao_audio_started"
     /\ StartAudio(s)

\* ------------------------------------------------- handle_transcribe_audio
\* base64 decode and audio_service.transcribe_audio under wait_for(30 s).
TranscribeOutcome(o) ==
  CASE o = "text" -> "tr_complete"
    [] o = "empty" -> "tr_err_empty"
    [] o = "timeout" -> "tr_err_timeout"
    [] o = "error" -> "tr_err_fail"

handle_transcribe_audio(s) ==
  \/ /\ pc[s] \in TranscribePcs
     /\ SimpleSend(s)
  \/ /\ pc[s] = "tr_call"
     /\ \E o \in {"text", "empty", "timeout", "error"} :
          /\ ~services.audio => o = "error"
          /\ Resume(s, TranscribeOutcome(o), o # "text")

\* ----------------------------------------------------- handle_set_language
handle_set_language(s) ==
  /\ pc[s] \in LanguagePcs
  /\ SimpleSend(s)

\* ------------------------------------------------------ handle_get_metrics
handle_get_metrics(s) ==
  /\ pc[s] \in MetricsPcs
  /\ SimpleSend(s)

\* ------------------------------------------------------------ specification
Next ==
  \E s \in Sessions :
    \/ ClientClose(s)
    \/ process_messages_ready(s)
    \/ process_messages_recv(s)
    \/ process_messages_error(s)
    \/ handle_ping(s)
    \/ handle_chat_with_audio(s)
    \/ handle_start_class(s)
    \/ handle_audio_only(s)
    \/ handle_transcribe_audio(s)
    \/ handle_set_language(s)
    \/ handle_get_metrics(s)
    \/ stream_audio_from_text(s)
    \/ audio_loop(s)

Spec == Init /\ [][Next]_vars

PairSpec == InitPair /\ [][Next]_vars

TypeOK ==
  /\ services \in ServiceConfigs
  /\ tts_provider \in TtsProviders
  /\ \A s \in Sessions :
       /\ sock[s] \in {0} \cup CloseCodes
       /\ loop[s] \in {"none", "ready", "recv", "busy", "stopped"}
       /\ active[s] \in 0..MaxRequests
       /\ current_language[s] \in Languages
       /\ chunk_count[s] \in 0..(MaxChunks + 1)
       /\ job[s] \in {"NONE", "RUNNING", "COMPLETE", "ABORTED", "FAILED"}
       /\ gen[s] \in {"idle", "stream", "batch", "last", "end", "exhausted"}

\* Fairness: the event loop runs every coroutine that can run and collaborator
\* calls are bounded by wait_for.  Provider streams carry no timeout of their
\* own; the provider is assumed to end its stream or to fail.  Nothing obliges
\* the client to send or to close.
Progress(s) ==
  \/ process_messages_ready(s)
  \/ process_messages_error(s)
  \/ handle_ping(s)
  \/ handle_chat_with_audio(s)
  \/ handle_start_class(s)
  \/ handle_audio_only(s)
  \/ handle_transcribe_audio(s)
  \/ handle_set_language(s)
  \/ handle_get_metrics(s)
  \/ stream_audio_from_text(s)
  \/ audio_loop(s)

LiveSpec == Spec /\ \A s \in Sessions : WF_vars(Progress(s))

\* ================================================================ properties
TypesOf(seq) == { seq[i].type : i \in DOMAIN seq }
IsChunk(e) == e.type = "audio_chunk"
Chunks(seq) == SelectSeq(seq, IsChunk)
CountType(seq, t) == Cardinality({ i \in DOMAIN seq : seq[i].type = t })

\* The loop has finished a message and has not read the next one.
Returned(s) == loop[s] = "recv" /\ handler[s] # "none"

TerminalEvents ==
  {"pong", "audio_generation_complete", "transcription_complete",
   "language_set", "metrics_response", "error"}

\* C1: on one Session the loop does not read the next message until the
\* dispatched handler has returned, so at most one handler (and one
\* StreamJob) is active per Session, whatever the other Sessions do.
C1_OneHandlerPerSession ==
  \A s \in Sessions :
    /\ active[s] <= 1
    /\ loop[s] = "recv" => (active[s] = 0 /\ pc[s] = "idle")
    /\ job[s] = "RUNNING" => (active[s] = 1 /\ loop[s] = "busy")

\* Two Sessions stream audio at the same time.
C1_Witness ==
  \A s \in Sessions : job[s] = "RUNNING" /\ pc[s] = "job_send"

\* C2: the k-th audio_chunk written in a job has chunk_id k, and a chunk is
\* handed to the socket only when every earlier chunk has been written.
C2_ChunkIdsContiguous ==
  \A s \in Sessions :
    LET c == Chunks(out[s]) IN
    /\ \A k \in 1..Len(c) : c[k].chunk_id = k
    /\ pc[s] = "job_send" => chunk_count[s] = Len(c) + 1
    /\ pc[s] \in {"job_pull", "job_complete"} => chunk_count[s] = Len(c)

\* A job that wrote two chunks in a row and completed.
C2_Witness ==
  \E s \in Sessions : Len(Chunks(out[s])) >= 2 /\ job[s] = "COMPLETE"

\* C3 (as claimed): a job that ends with audio_generation_complete has
\* exactly one audio_chunk with is_first_chunk, hence at least one chunk.
C3_CompleteHasFirstChunk ==
  \A s \in Sessions :
    "audio_generation_complete" \in TypesOf(out[s]) =>
      /\ Cardinality({ i \in DOMAIN out[s] :
                         IsChunk(out[s][i]) /\ out[s][i].is_first_chunk }) = 1
      /\ \A i \in DOMAIN out[s] :
           out[s][i].type = "audio_generation_complete"
             => out[s][i].total_chunks >= 1

\* C4: when a write of the audio loop finds the socket closed, the job ends
\* ABORTED at once, and nothing (no chunk, no completion, no error) is
\* written for it afterwards.
C4_FoundClosed(s) ==
  /\ pc[s] \in {"job_send", "job_complete"}
  /\ ~Connected(s)
  /\ pc'[s] # pc[s]

C4_AbortOnClose ==
  /\ [](\A s \in Sessions :
          job[s] = "ABORTED" =>
            TypesOf(out[s]) \cap {"audio_generation_complete", "error"} = {})
  /\ [][\A s \in Sessions :
          /\ C4_FoundClosed(s) => (job'[s] = "ABORTED" /\ out'[s] = out[s])
          /\ job[s] = "ABORTED" => out'[s] \in {out[s], <<>>}]_vars

\* The socket closed after chunk 1 was written and before chunk 2.
C4_Witness ==
  \E s \in Sessions :
    /\ job[s] = "ABORTED"
    /\ Len(Chunks(out[s])) >= 1
    /\ chunk_count[s] = Len(Chunks(out[s])) + 1

\* C5 (as claimed): once a read or write has reported the connection closed,
\* no further write is attempted on that Session's socket.
C5_NoSendAfterClosed ==
  \A s \in Sessions : ~sendAfterClosed[s]

\* C6 (as claimed): no provider attempt is started once a chunk of the job
\* has been delivered.
C6_NoFallbackAfterDelivery ==
  \A s \in Sessions :
    \A i \in DOMAIN attempts[s] : i > 1 => attempts[s][i].delivered = 0

\* The streaming providers stream_audio_from_text is written to try, in
\* order, for a configured primary.
ConfiguredStreams(provider) ==
  IF provider = "elevenlabs"
  THEN {"elevenlabs_stream", "sarvam_stream"}
  ELSE {"sarvam_stream"}

\* C7 (as claimed): a job gives up with nothing delivered only after every
\* configured streaming provider has been attempted for the text.
C7_FallbackOrder ==
  \A s \in Sessions :
    (gen[s] = "exhausted" /\ chunk_count[s] = 0) =>
      ConfiguredStreams(tts_provider)
        \subseteq { attempts[s][i].p : i \in DOMAIN attempts[s] }

\* C8 (as claimed): when every provider failed with nothing delivered, the
\* client gets exactly one error event and no audio_chunk.
C8_ExhaustedGivesOneError ==
  \A s \in Sessions :
    (Returned(s) /\ Connected(s) /\ gen[s] = "exhausted"
       /\ chunk_count[s] = 0) =>
      (CountType(out[s], "error") = 1
         /\ "audio_chunk" \notin TypesOf(out[s]))

\* C9 (as claimed): a request that failed while the socket stayed open has
\* produced exactly one error event.
C9_ExactlyOneError ==
  \A s \in Sessions :
    (Returned(s) /\ Connected(s) /\ failed[s]) =>
      CountType(out[s], "error") = 1

ExceptionPcs ==
  {"lp_err_exc", "cwa_err_chatfail", "sc_err_loadfail", "tr_err_fail",
   "job_err", "sc_err_outer", "ao_err_outer", "tr_err_outer", "sl_err_outer",
   "gm_err_outer"}

\* C11: an exception caught while a request is processed is reported with
\* one error event when the socket is open and the loop is back at recv;
\* the loop only ever stops on a closed socket.
C11_LoopSurvivesFailure ==
  [][\A s \in Sessions :
       /\ (loop[s] # "stopped" /\ loop'[s] = "stopped") => ~Connected(s)
       /\ (pc[s] \in ExceptionPcs /\ Connected(s) /\ pc'[s] # pc[s]) =>
            /\ out'[s] = Append(out[s], Ev("error"))
            /\ CountType(out'[s], "error") = 1
            /\ loop'[s] = "recv"]_vars

\* A malformed start_class request failed in the load block, its error was
\* written, and the loop is reading again on the open socket.
C11_Witness ==
  \E s \in Sessions :
    /\ Returned(s)
    /\ Connected(s)
    /\ handler[s] = "start_class"
    /\ failed[s]
    /\ nread = MaxRequests
    /\ out[s] = <<EvAt("sc_ack"), Ev("error")>>

\* Messages the loop rejects before any handler is chosen.
ProtocolErrors == {"bad_json", "no_type", "unknown_type"}
ProtocolErrorPcs == {"lp_err_json", "lp_err_notype", "lp_err_unknown"}

SessionStateKept(s) ==
  /\ current_language'[s] = current_language[s]
  /\ total_requests'[s] = total_requests[s]
  /\ errors'[s] = errors[s]

\* C12: a message that is not JSON, has no type or has an unknown type gets
\* one error event on the open socket; the loop is back at recv, the socket
\* is still open, and language and request/error counters are as before the
\* message was read.
C12_ProtocolErrorContinues ==
  [][\A s \in Sessions :
       /\ (loop[s] = "recv" /\ handler'[s] \in ProtocolErrors
             /\ loop'[s] = "busy") =>
            (SessionStateKept(s) /\ pc'[s] \in ProtocolErrorPcs
               /\ out'[s] = <<>>)
       /\ (pc[s] \in ProtocolErrorPcs /\ Connected(s) /\ pc'[s] # pc[s]) =>
            /\ out'[s] = <<Ev("error")>>
            /\ loop'[s] = "recv"
            /\ sock'[s] = sock[s]
            /\ SessionStateKept(s)]_vars

\* Invalid JSON arrived after a completed audio request: it was answered with
\* one error and the request counter still reads 1.
C12_Witness ==
  \E s \in Sessions :
    /\ Returned(s)
    /\ Connected(s)
    /\ handler[s] = "bad_json"
    /\ out[s] = <<Ev("error")>>
    /\ total_requests[s] = 1
    /\ errors[s] = 0

\* C13 (as claimed): after a closure was reported no further message is
\* read; a normal closure never changes the error counter; an abnormal
\* closure whose first report stops the loop increments it by one.
C13_ClosureCounting ==
  [][\A s \in Sessions :
       /\ closedSeen[s] => ~(loop[s] = "recv" /\ loop'[s] = "busy")
       /\ (~Connected(s) /\ is_normal_closure(sock[s])) =>
            errors'[s] = errors[s]
       /\ (~Connected(s) /\ ~is_normal_closure(sock[s])
             /\ ~closedSeen[s] /\ closedSeen'[s]
             /\ loop'[s] = "stopped") =>
            errors'[s] = errors[s] + 1]_vars

\* C14 (as claimed): a socket found closed by a write of the audio loop
\* aborts the job and leaves the Session's error counter as it was.
C14_AbortNotAnError ==
  [][\A s \in Sessions :
       C4_FoundClosed(s) =>
         (job'[s] = "ABORTED" /\ errors'[s] = errors[s])]_vars

\* C15 (as claimed): after the first request of a Session has been answered
\* on an open socket, it is counted exactly once: in errors when it ended
\* with an error event, in total_requests otherwise.
C15_MetricsExact ==
  \A s \in Sessions :
    (nread = 1 /\ Returned(s) /\ Connected(s) /\ handler[s] \in Handlers) =>
      LET err == "error" \in TypesOf(out[s]) IN
      /\ total_requests[s] = (IF err THEN 0 ELSE 1)
      /\ errors[s] = (IF err THEN 1 ELSE 0)

\* C16 (as claimed): every event written for a request carries the
\* request_id of that request.
C16_RequestIdEchoed ==
  \A s \in Sessions :
    handler[s] \in Handlers =>
      \A i \in DOMAIN out[s] : out[s][i].request_id = RequestId

\* Handlers with a required field, and the pcs at which they reject a
\* request before doing anything else.
FieldHandlers ==
  {"chat_with_audio", "audio_only", "transcribe_audio", "set_language"}
RejectPcs ==
  {"cwa_err_nochat", "cwa_err_noaudio", "cwa_err_missing", "ao_err_missing",
   "tr_err_missing", "sl_err_missing"}

\* C17: a request without its required field goes straight to an error
\* write; reading it and answering it on the open socket leave language and
\* counters as they were, start no job and call no collaborator or provider.
C17_MissingFieldNoEffect ==
  /\ [](\A m \in FieldHandlers : FirstPc(m, FALSE, services) \in RejectPcs)
  /\ [][\A s \in Sessions :
          /\ (loop[s] = "recv" /\ loop'[s] = "busy" /\ pc'[s] \in RejectPcs) =>
               (SessionStateKept(s) /\ job'[s] = "NONE" /\ out'[s] = <<>>)
          /\ (pc[s] \in RejectPcs /\ Connected(s) /\ pc'[s] # pc[s]) =>
               /\ out'[s] = <<Ev("error")>>
               /\ SessionStateKept(s)
               /\ pc'[s] = "idle"
               /\ loop'[s] = "recv"
               /\ job'[s] = "NONE"
               /\ attempts'[s] = <<>>]_vars

\* set_language without a language, sent after the language had been set to
\* hi-IN: one error, and the language is still hi-IN.
C17_Witness ==
  \E s \in Sessions :
    /\ Returned(s)
    /\ Connected(s)
    /\ handler[s] = "set_language"
    /\ out[s] = <<Ev("error")>>
    /\ current_language[s] = "hi-IN"

AudioEvents ==
  {"audio_generation_started", "audio_chunk", "audio_generation_complete"}

TimeoutError == [Ev("error") EXCEPT !.error = "timeout"]

\* C18: when ask_question times out the handler writes the timeout error (if
\* the socket is open) and returns; no audio event is written for the
\* request, no job exists and no provider attempt is made.
C18_TimeoutStartsNoJob ==
  /\ [](\A s \in Sessions :
          (pc[s] = "cwa_err_timeout"
             \/ (handler[s] = "chat_with_audio"
                   /\ \E i \in DOMAIN out[s] : out[s][i] = TimeoutError)) =>
            /\ job[s] = "NONE"
            /\ attempts[s] = <<>>
            /\ TypesOf(out[s]) \cap AudioEvents = {})
  /\ [][\A s \in Sessions :
          (pc[s] = "cwa_err_timeout" /\ pc'[s] # pc[s]) =>
            /\ pc'[s] = "idle"
            /\ loop'[s] = "recv"
            /\ Connected(s) => out'[s] = Append(out[s], TimeoutError)]_vars

\* A chat request whose answer timed out: acknowledgement, timeout error,
\* and the loop is reading again.
C18_Witness ==
  \E s \in Sessions :
    /\ Returned(s)
    /\ Connected(s)
    /\ handler[s] = "chat_with_audio"
    /\ out[s] = <<EvAt("cwa_ack"), TimeoutError>>

\* ==================================================== the closure classifiers
\* Words an error message is put together from.
MaxWords == 2

\* A string is the sequence of its pieces; digits are pieces of their own so
\* that "1000" is found inside "10000".
Vocabulary ==
  { <<"Going", " ", "away">>,
    <<"normal", " ", "closure">>,
    <<"code", " ", "=", " ", "1", "0", "0", "0">>,
    <<"connection", " ", "closed">>,
    <<"connection", " ", "lost">>,
    <<"timed out after", " ", "1", "0", "0", "0", "0", " ", "ms">>,
    <<"internal", " ", "error">>,
    <<"client", " ", "disconnected">> }

RECURSIVE JoinWords(_)
JoinWords(ws) ==
  IF ws = <<>> THEN <<>>
  ELSE IF Len(ws) = 1 THEN ws[1]
  ELSE ws[1] \o <<" ">> \o JoinWords(Tail(ws))

MessagesOfLen(n) == { JoinWords(ws) : ws \in [1..n -> Vocabulary] }
ErrorMessages == UNION { MessagesOfLen(n) : n \in 0..MaxWords }

\* Close codes a ConnectionClosed can carry.
AllCloseCodes == 1000..1015

DigitStr == <<"0", "1", "2", "3", "4", "5", "6", "7", "8", "9">>
Digits(n) ==
  << DigitStr[((n \div 1000) % 10) + 1], DigitStr[((n \div 100) % 10) + 1],
     DigitStr[((n \div 10) % 10) + 1], DigitStr[(n % 10) + 1] >>

\* The websockets library raises ConnectionClosedOK for 1000 and 1001 and
\* ConnectionClosedError otherwise; str() of either names the close code.
ClosedException(code) ==
  [fn |-> "classify",
   cls |-> IF code \in {1000, 1001} THEN "ConnectionClosedOK"
           ELSE "ConnectionClosedError",
   code |-> code,
   msg |-> <<"received", " ">> \o Digits(code)]

OtherException(msg) ==
  [fn |-> "classify", cls |-> "Exception", code |-> 0, msg |-> msg]

ErrorInputs ==
  { ClosedException(c) : c \in AllCloseCodes }
    \cup { OtherException(m) : m \in ErrorMessages }

\* str.lower() and the `in` operator on strings.
LowerPiece(t) == IF t = "Going" THEN "going" ELSE t
Lower(str) == [i \in DOMAIN str |-> LowerPiece(str[i])]
Contains(str, sub) ==
  \E i \in 0..(Len(str) - Len(sub)) : SubSeq(str, i + 1, i + Len(sub)) = sub

\* websocket_server.is_normal_closure on any exception.
server_is_normal_closure(e) ==
  IF e.cls = "ConnectionClosedOK" THEN TRUE
  ELSE IF e.cls = "ConnectionClosedError" THEN is_normal_closure(e.code)
  ELSE FALSE

\* utils.connection_monitor.is_normal_closure.
monitor_is_normal_closure(e) ==
  IF e.cls = "ConnectionClosedOK" THEN TRUE
  ELSE IF e.cls = "ConnectionClosedError" THEN e.code \in {1000, 1001}
  ELSE \E ind \in { <<"code", " ", "=", " ", "1", "0", "0", "0">>,
                    <<"code", " ", "=", " ", "1", "0", "0", "1">>,
                    <<"going", " ", "away">>,
                    <<"normal", " ", "closure">> } :
         Contains(Lower(e.msg), ind)

\* AudioService._is_normal_disconnection (and its copy in SarvamService) on
\* str(e).
_is_normal_disconnection(error_msg) ==
  IF error_msg = <<>> THEN FALSE
  ELSE \E ind \in { <<"1", "0", "0", "0">>, <<"1", "0", "0", "1">>,
                    <<"connection", " ", "closed">>,
                    <<"client", " ", "disconnected">>,
                    <<"going", " ", "away">>,
                    <<"connection", " ", "lost">> } :
         Contains(Lower(error_msg), ind)

\* One error is handed to each copy of the classifier.
classify_closure ==
  /\ arg.fn = "classify"
  /\ ~ret.done
  /\ ret' = [done |-> TRUE,
             server |-> server_is_normal_closure(arg),
             monitor |-> monitor_is_normal_closure(arg),
             audio |-> _is_normal_disconnection(arg.msg)]
  /\ UNCHANGED <<arg, aside, asked, config, conn, ctl, metrics, jobvars, current_language,
                 out, failed, nread>>

ClassifyInit ==
  /\ InitWith({})
  /\ services = AllServices
  /\ tts_provider = "elevenlabs"
  /\ Plain
  /\ arg \in ErrorInputs
  /\ ret = [done |-> FALSE]

ClassifySpec == ClassifyInit /\ [][classify_closure]_vars

\* C19 (as claimed): every copy of the classifier answers Normal exactly for
\* a socket closure with code 1000 or 1001.
C19_ClassifiersAgree ==
  (arg.fn = "classify" /\ ret.done) =>
    LET normal == arg.cls # "Exception" /\ arg.code \in {1000, 1001} IN
    /\ ret.server = normal
    /\ ret.monitor = normal
    /\ ret.audio = normal

\* ========================================================= the text chunkers
\* Length of the texts handed to the chunkers, and the largest max_chunk_size.
MaxText == 5
MaxChunkSize == 3

\* A text is the sequence of its characters: letters, the blank, the full stop.
Alphabet == {"a", "b", " ", "."}
Texts == UNION { [1..n -> Alphabet] : n \in 0..MaxText }

IsPunct(c) == c = "."

\* str.split(): the maximal runs of non-blank characters.
RECURSIVE SplitFrom(_, _, _)
SplitFrom(str, i, cur) ==
  IF i > Len(str) THEN (IF cur = <<>> THEN <<>> ELSE <<cur>>)
  ELSE IF str[i] = " "
       THEN (IF cur = <<>> THEN <<>> ELSE <<cur>>) \o SplitFrom(str, i + 1, <<>>)
       ELSE SplitFrom(str, i + 1, Append(cur, str[i]))

PySplit(str) == SplitFrom(str, 1, <<>>)

\* str.strip().
RECURSIVE LStrip(_)
LStrip(str) ==
  IF str # <<>> /\ Head(str) = " " THEN LStrip(Tail(str)) ELSE str

RECURSIVE RStrip(_)
RStrip(str) ==
  IF str # <<>> /\ str[Len(str)] = " "
  THEN RStrip(SubSeq(str, 1, Len(str) - 1)) ELSE str

Strip(str) == RStrip(LStrip(str))

\* text[n:].
SliceFrom(str, n) == IF n >= Len(str) THEN <<>> ELSE SubSeq(str, n + 1, Len(str))

\* `cur += " " + word if cur else word`.
AddWord(cur, word) == IF cur # <<>> THEN cur \o <<" ">> \o word ELSE word

\* re.split(r'([.!?]+)', text): text between punctuation runs and the runs
\* themselves, alternating, starting and ending with text (possibly empty).
RECURSIVE ReSplitFrom(_, _, _, _)
ReSplitFrom(str, i, cur, inRun) ==
  IF i > Len(str) THEN (IF inRun THEN <<cur, <<>>>> ELSE <<cur>>)
  ELSE IF IsPunct(str[i]) = inRun
       THEN ReSplitFrom(str, i + 1, Append(cur, str[i]), inRun)
       ELSE <<cur>> \o ReSplitFrom(str, i + 1, <<str[i]>>, ~inRun)

ReSplit(str) == ReSplitFrom(str, 1, <<>>, FALSE)

\* SarvamService._split_text_fast: the loop over the words, then the last
\* chunk.
RECURSIVE FastLoop(_, _, _, _, _)
FastLoop(words, i, cur, chunks, max_chunk_size) ==
  IF i > Len(words)
  THEN (IF cur # <<>> THEN Append(chunks, Strip(cur)) ELSE chunks)
  ELSE IF Len(cur) + Len(words[i]) + 1 <= max_chunk_size
       THEN FastLoop(words, i + 1, AddWord(cur, words[i]), chunks,
                     max_chunk_size)
       ELSE FastLoop(words, i + 1, words[i],
                     IF cur # <<>> THEN Append(chunks, Strip(cur)) ELSE chunks,
                     max_chunk_size)

_split_text_fast(text, max_chunk_size) ==
  FastLoop(PySplit(text), 1, <<>>, <<>>, max_chunk_size)

\* SarvamService._split_text_for_immediate_streaming: the first chunk takes
\* words while they fit (at most 100 of them).
RECURSIVE FirstWords(_, _, _, _)
FirstWords(words, i, first_chunk, max_chunk_size) ==
  IF i > Len(words) THEN first_chunk
  ELSE IF Len(first_chunk \o <<" ">> \o words[i]) <= max_chunk_size
            /\ i - 1 < 100
       THEN FirstWords(words, i + 1, AddWord(first_chunk, words[i]),
                       max_chunk_size)
       ELSE first_chunk

_split_text_for_immediate_streaming(text, max_chunk_size) ==
  LET words == PySplit(text)
      first_chunk == FirstWords(words, 1, <<>>, max_chunk_size)
      remaining_text == Strip(SliceFrom(text, Len(first_chunk)))
  IN IF words = <<>> THEN <<>>
     ELSE IF first_chunk # <<>>
          THEN <<Strip(first_chunk)>>
                 \o (IF remaining_text # <<>>
                     THEN _split_text_fast(remaining_text, max_chunk_size)
                     ELSE <<>>)
          ELSE _split_text_fast(text, max_chunk_size)

\* SarvamService._split_text_for_streaming: the first chunk takes whole
\* sentences while they fit ...
RECURSIVE SentenceLoop(_, _, _, _)
SentenceLoop(sentences, j, first_chunk, max_chunk_size) ==
  IF j >= Len(sentences) THEN first_chunk
  ELSE LET sentence == Strip(sentences[j]) \o sentences[j + 1] IN
       IF Len(first_chunk \o sentence) <= max_chunk_size
       THEN SentenceLoop(sentences, j + 2, first_chunk \o sentence \o <<" ">>,
                         max_chunk_size)
       ELSE first_chunk

\* ... or, when no sentence fits, words while they fit.
RECURSIVE WordLoop(_, _, _, _, _)
WordLoop(words, i, current_chunk, text, max_chunk_size) ==
  IF i > Len(words) THEN [chunks |-> <<>>, remaining_text |-> text]
  ELSE IF Len(current_chunk \o words[i]) + 1 <= max_chunk_size
       THEN WordLoop(words, i + 1, AddWord(current_chunk, words[i]), text,
                     max_chunk_size)
       ELSE IF current_chunk # <<>>
            THEN [chunks |-> <<Strip(current_chunk)>>,
                  remaining_text |->
                    Strip(SliceFrom(text, Len(current_chunk)))]
            ELSE [chunks |-> <<>>, remaining_text |-> text]

_split_text_for_streaming(text, max_chunk_size) ==
  LET words == PySplit(text)
      sentences == ReSplit(text)
      first_chunk ==
        IF Len(sentences) >= 2
        THEN SentenceLoop(sentences, 1, <<>>, max_chunk_size) ELSE <<>>
      bySentence == Strip(first_chunk) # <<>>
      byWord == WordLoop(words, 1, <<>>, text, max_chunk_size)
      chunks == IF bySentence THEN <<Strip(first_chunk)>> ELSE byWord.chunks
      remaining_text ==
        IF bySentence THEN Strip(SliceFrom(text, Len(first_chunk)))
        ELSE byWord.remaining_text
  IN IF words = <<>> THEN <<>>
     ELSE IF remaining_text # <<>>
          THEN chunks \o _split_text_fast(remaining_text, max_chunk_size)
          ELSE chunks

\* One text is handed to each chunker.
split_text ==
  /\ arg.fn = "split"
  /\ ~ret.done
  /\ ret' = [done |-> TRUE,
             fast |-> _split_text_fast(arg.text, arg.max_chunk_size),
             immediate |->
               _split_text_for_immediate_streaming(arg.text,
                                                   arg.max_chunk_size),
             streaming |->
               _split_text_for_streaming(arg.text, arg.max_chunk_size)]
  /\ UNCHANGED <<arg, aside, asked, config, conn, ctl, metrics, jobvars, current_language,
                 out, failed, nread>>

ChunkerInit ==
  /\ InitWith({})
  /\ services = AllServices
  /\ tts_provider = "sarvam"
  /\ Plain
  /\ arg \in [fn : {"split"}, text : Texts, max_chunk_size : 1..MaxChunkSize]
  /\ ret = [done |-> FALSE]

ChunkerSpec == ChunkerInit /\ [][split_text]_vars

\* The words of the chunks, in order.
RECURSIVE ChunkWords(_)
ChunkWords(chunks) ==
  IF chunks = <<>> THEN <<>>
  ELSE PySplit(Head(chunks)) \o ChunkWords(Tail(chunks))

\* C20 (as claimed): whatever the text and the maximum chunk size, the words
\* of the chunks of each chunker, read in order, are the words of the text:
\* none lost, none duplicated, none cut.
C20_ChunksKeepWords ==
  (arg.fn = "split" /\ ret.done) =>
    /\ ChunkWords(ret.fast) = PySplit(arg.text)
    /\ ChunkWords(ret.immediate) = PySplit(arg.text)
    /\ ChunkWords(ret.streaming) = PySplit(arg.text)

\* ------------------------------------------------------------ session ids
\* Half a second of wall-clock time passes.
Tick ==
  /\ now < MaxTime * 500
  /\ now' = now + 500
  /\ UNCHANGED <<pure, client_id, _jobs, task, config, conn, ctl, metrics,
                 jobvars, current_language, asked, out, failed, nread>>

\* websocket_handler up to its first await: the client_id is built from the
\* whole seconds of the time of acceptance, then the wrapper and the agent
\* are constructed.
websocket_handler(s) ==
  /\ loop[s] = "none"
  /\ client_id' = [client_id EXCEPT ![s] = int(now)]
  /\ loop' = [loop EXCEPT ![s] = "ready"]
  /\ UNCHANGED <<pure, now, _jobs, task, config, conn, pc, handler, active,
                 metrics, jobvars, current_language, asked, out, failed,
                 nread>>

\* The server listens and has accepted nothing yet.
AcceptInit == InitWith({}) /\ NoCall /\ Plain

AcceptNext == Tick \/ \E s \in Sessions : websocket_handler(s)

AcceptSpec == AcceptInit /\ [][AcceptNext]_vars

Accepted(s) == loop[s] # "none"

\* C21 (as claimed): two Sessions of the process never carry the same
\* client_id, whenever they were accepted.
C21_SessionIdsUnique ==
  \A s, t \in Sessions :
    (s # t /\ Accepted(s) /\ Accepted(t)) => client_id[s] # client_id[t]

\* ----------------------------------------------------- first-chunk latency
\* The message loop with wall-clock time passing between its steps.
TimedNext == Next \/ Tick

\* One connection to a deployment with every service constructed.
TimedInit ==
  /\ InitWith({"s1"})
  /\ NoCall
  /\ services = AllServices
  /\ Plain

TimedSpec == TimedInit /\ [][TimedNext]_vars

\* The audio_generation_complete events written for the current request.
CompleteEvents(s) ==
  { out[s][i] : i \in { j \in DOMAIN out[s] :
                          out[s][j].type = "audio_generation_complete" } }

\* C22 (as claimed): the first_chunk_latency of audio_generation_complete is
\* the time from the start of the audio pipeline to the write of the first
\* audio chunk of the job.
C22_LatencyIsFirstChunkTime ==
  \A s \in Sessions : \A ev \in CompleteEvents(s) :
    first_chunk_sent[s] => ev.first_chunk_latency = first_audio_latency[s]

\* ------------------------------------------- ProfAIWebSocketWrapper.close
\* websockets connection states: CONNECTING, OPEN, CLOSING, CLOSED.
CONNECTING == 0
OPEN == 1
CLOSING == 2
CLOSED == 3

\* What can go wrong in an awaited socket call on an open connection: nothing,
\* an exception of the transport, the cancellation of the task, or the peer
\* closing at that moment.
Faults == {"none", "error", "cancelled", "closed"}

\* The outcome of `await websocket.send(...)` on a connection in `state`.
SendOutcome(state, fault) ==
  IF state \in {CLOSING, CLOSED} THEN "ConnectionClosed"
  ELSE IF state = CONNECTING THEN "Exception"
  ELSE CASE fault = "none" -> "ok"
         [] fault = "error" -> "Exception"
         [] fault = "cancelled" -> "CancelledError"
         [] fault = "closed" -> "ConnectionClosed"

\* What a bare `except:` lets through: nothing.
BareExceptRaises(exc) == FALSE

\* What `except ConnectionClosed` followed by `except Exception` lets
\* through: CancelledError, which is a BaseException.
ExceptExceptionRaises(exc) == exc = "CancelledError"

CloseInputs ==
  [fn : {"close"}, state : {OPEN, CLOSING, CLOSED},
   send_fault : Faults \ {"closed"}, close_fault : {"none", "error"},
   message_count : 0..MaxRequests]

\* ProfAIWebSocketWrapper.close: the final metrics event, then the close of
\* the socket, both inside one `try` with a bare `except: pass`.
close ==
  /\ arg.fn = "close"
  /\ ~ret.done
  /\ LET sent == SendOutcome(arg.state, arg.send_fault)
         closing == sent = "ok"
         closed == closing /\ arg.close_fault = "none"
     IN ret' = [done |-> TRUE,
                send_called |-> TRUE,
                sent |-> sent = "ok",
                total_messages |-> arg.message_count,
                close_called |-> closing,
                state |-> IF closed THEN CLOSED ELSE arg.state,
                raised |-> IF sent # "ok" THEN BareExceptRaises(sent)
                           ELSE arg.close_fault # "none"
                                /\ BareExceptRaises("Exception")]
  /\ UNCHANGED <<arg, aside, asked, config, conn, ctl, metrics, jobvars,
                 current_language, out, failed, nread>>

CloseInit ==
  /\ InitWith({})
  /\ services = AllServices
  /\ tts_provider = "elevenlabs"
  /\ Plain
  /\ arg \in CloseInputs
  /\ ret = [done |-> FALSE]

CloseSpec == CloseInit /\ [][close]_vars

\* C23 (as claimed): close() attempts the final metrics event, then closes
\* the socket whether or not the event could be sent, and raises nothing.
C23_CloseAlwaysCloses ==
  (arg.fn = "close" /\ ret.done) =>
    /\ ret.send_called
    /\ ret.close_called
    /\ ~ret.raised

\* ------------------------------------------------------ send_chunk_safely
\* A websocket argument: None, or an object that exposes some of the
\* attributes closed, state and open of the connection it stands for.  A
\* ProfAIWebSocketWrapper exposes none of them.
WebSockets ==
  [none : BOOLEAN, attrs : SUBSET {"closed", "state", "open"},
   state : CONNECTING..CLOSED]

\* utils.connection_monitor.is_client_connected.
is_client_connected(websocket) ==
  IF websocket.none THEN FALSE
  ELSE IF "closed" \in websocket.attrs /\ websocket.state = CLOSED THEN FALSE
  ELSE IF "state" \in websocket.attrs THEN websocket.state = 1
  ELSE IF "open" \in websocket.attrs THEN websocket.state = OPEN
  ELSE TRUE

SendChunkInputs ==
  [fn : {"send_chunk_safely"}, websocket : WebSockets, fault : Faults,
   serialisable : BOOLEAN]

\* utils.connection_monitor.send_chunk_safely: the connection check, then
\* json.dumps and the write inside `try`.
send_chunk_safely ==
  /\ arg.fn = "send_chunk_safely"
  /\ ~ret.done
  /\ LET sent == SendOutcome(arg.websocket.state, arg.fault) IN
     ret' =
       IF ~is_client_connected(arg.websocket)
       THEN [done |-> TRUE, result |-> FALSE, send_called |-> FALSE,
             written |-> FALSE, raised |-> FALSE]
       ELSE IF ~arg.serialisable
       THEN [done |-> TRUE, result |-> FALSE, send_called |-> FALSE,
             written |-> FALSE, raised |-> ExceptExceptionRaises("TypeError")]
       ELSE [done |-> TRUE,
             result |-> sent = "ok",
             send_called |-> TRUE,
             written |-> sent = "ok",
             raised |-> sent # "ok" /\ ExceptExceptionRaises(sent)]
  /\ UNCHANGED <<arg, aside, asked, config, conn, ctl, metrics, jobvars,
                 current_language, out, failed, nread>>

SendChunkInit ==
  /\ InitWith({})
  /\ services = AllServices
  /\ tts_provider = "elevenlabs"
  /\ Plain
  /\ arg \in SendChunkInputs
  /\ ret = [done |-> FALSE]

SendChunkSpec == SendChunkInit /\ [][send_chunk_safely]_vars

\* The connection the argument stands for is in the OPEN state.
IsOpen(websocket) == ~websocket.none /\ websocket.state = OPEN

\* C27 (as claimed): on a connection that is not OPEN send_chunk_safely
\* attempts no write and returns False; on an OPEN one it returns True
\* exactly when the chunk was written; a write that fails with a closure or
\* another error raises nothing.
C27_SendChunkSafely ==
  (arg.fn = "send_chunk_safely" /\ ret.done) =>
    /\ ~IsOpen(arg.websocket) => (~ret.send_called /\ ~ret.result)
    /\ IsOpen(arg.websocket) => (ret.result <=> ret.written)
    /\ arg.fault # "cancelled" => ~ret.raised

\* -------------------------------------------------------- background jobs
Min(a, b) == IF a < b THEN a ELSE b
Max(a, b) == IF a > b THEN a ELSE b

Known(jobs, job_id) == jobs[job_id].status # "absent"

\* JobTracker.create_job.
create_job(jobs, job_id) ==
  [jobs EXCEPT ![job_id] = [NoJob EXCEPT !.status = "pending"]]

\* JobTracker.update_status.
update_status(jobs, job_id, status) ==
  IF Known(jobs, job_id) THEN [jobs EXCEPT ![job_id].status = status]
  ELSE jobs

\* JobTracker.update_progress.
update_progress(jobs, job_id, progress) ==
  IF Known(jobs, job_id)
  THEN [jobs EXCEPT ![job_id].progress = Min(100, Max(0, progress))]
  ELSE jobs

\* A tracker that stores the result and leaves the status alone.
set_resultOnly(jobs, job_id, result) ==
  IF Known(jobs, job_id)
  THEN [jobs EXCEPT ![job_id].result = <<result>>]
  ELSE jobs

\* JobTracker.set_result.
set_result(jobs, job_id, result) ==
  IF Known(jobs, job_id)
  THEN [jobs EXCEPT ![job_id].result = <<result>>,
                    ![job_id].status = "completed"]
  ELSE jobs

\* JobTracker.set_error.
set_error(jobs, job_id, error) ==
  IF Known(jobs, job_id)
  THEN [jobs EXCEPT ![job_id].error = <<error>>,
                    ![job_id].status = "failed"]
  ELSE jobs

\* ThreadPoolExecutor(max_workers=3).
max_workers == 3

\* What DocumentService.process_uploaded_pdfs returns: a course dict whose
\* course_id is an integer (JSON mode), a UUID text (database mode) or None.
CourseData ==
  [course_id : {"None", "7", "uuid"}, modules : 0..1]

\* The messages of the exceptions it raises.
ProcessingErrors == {"No text could be extracted from uploaded documents", ""}

\* str(course_id) if course_id is not None else None.
course_id_str(course_id) == course_id

\* The state the session variables are left in.
sessions ==
  <<config, conn, ctl, metrics, jobvars, current_language, asked, out, failed,
    nread>>

\* POST /api/upload-pdfs: create the job, start the background task, answer
\* with the job id and "pending".
upload_and_process_pdfs(j) ==
  /\ ~Known(_jobs, j)
  /\ _jobs' = create_job(_jobs, j)
  /\ task' = [task EXCEPT ![j] = [NoTask EXCEPT !.pc = "start"]]
  /\ UNCHANGED <<pure, now, client_id, sessions>>

\* run_with_progress, in a thread of the pool: report progress 20, then run
\* the blocking document processing to its return or its exception.
run_with_progress(j) ==
  /\ \/ /\ task[j].pc = "submitted"
        /\ Cardinality({k \in JobIds : task[k].pc = "running"}) < max_workers
        /\ _jobs' = update_progress(_jobs, j, 20)
        /\ task' = [task EXCEPT ![j].pc = "running"]
     \/ /\ task[j].pc = "running"
        /\ \/ \E course_data \in CourseData :
                task' = [task EXCEPT ![j].pc = "returned",
                                     ![j].returned = <<course_data>>]
           \/ \E e \in ProcessingErrors :
                task' = [task EXCEPT ![j].pc = "returned",
                                     ![j].raised = <<e>>]
        /\ UNCHANGED _jobs
  /\ UNCHANGED <<pure, now, client_id, sessions>>

\* AsyncDocumentService.process_pdfs_async: up to the await of the executor,
\* then from its return to the end.
process_pdfs_async(j) ==
  /\ \/ /\ task[j].pc = "start"
        /\ _jobs' =
             update_progress(update_status(_jobs, j, "processing"), j, 10)
        /\ task' = [task EXCEPT ![j].pc = "submitted"]
     \/ /\ task[j].pc = "returned"
        /\ _jobs' =
             IF task[j].raised # <<>>
             THEN set_error(_jobs, j, task[j].raised[1])
             ELSE LET course_data == task[j].returned[1] IN
                  set_result(update_progress(_jobs, j, 100), j,
                             [course_id |-> course_id_str(course_data.course_id),
                              modules |-> course_data.modules])
        /\ task' = [task EXCEPT ![j].pc = "done"]
  /\ UNCHANGED <<pure, now, client_id, sessions>>

JobInit ==
  /\ InitWith({})
  /\ services = AllServices
  /\ tts_provider = "elevenlabs"
  /\ Plain
  /\ NoCall

JobNext ==
  \E j \in JobIds :
    \/ upload_and_process_pdfs(j)
    \/ process_pdfs_async(j)
    \/ run_with_progress(j)

\* The event loop runs every task that can run; the document processing
\* returns or raises.
JobSpec ==
  /\ JobInit
  /\ [][JobNext]_vars
  /\ \A j \in JobIds :
       WF_vars(process_pdfs_async(j)) /\ WF_vars(run_with_progress(j))

TerminalStatus == {"completed", "failed"}

\* What holds of the record of job j in every state.
JobRecordOk(j) ==
  /\ _jobs[j].progress \in 0..100
  /\ _jobs[j].status = "completed" =>
       (_jobs[j].result # <<>> /\ _jobs[j].error = <<>>)
  /\ _jobs[j].status = "failed" =>
       (_jobs[j].error # <<>> /\ _jobs[j].result = <<>>)

\* What holds of every step for job j: it is created pending, and a
\* terminal status stays.
JobStepOk(j) ==
  /\ (~Known(_jobs, j) /\ Known(_jobs', j)) => _jobs'[j].status = "pending"
  /\ _jobs[j].status \in TerminalStatus => _jobs'[j].status = _jobs[j].status

\* C24: every job starts as pending, reaches completed (with a result) or
\* failed (with an error), keeps its terminal status, and has a progress
\* within 0..100 throughout.
C24_JobReachesOneTerminal ==
  /\ [](\A j \in JobIds : JobRecordOk(j))
  /\ [][\A j \in JobIds : JobStepOk(j)]_vars
  /\ \A j \in JobIds :
       (_jobs[j].status = "pending") ~> (_jobs[j].status \in TerminalStatus)

\* One job has completed and another has failed.
C24_Witness ==
  \E j, k \in JobIds :
    /\ _jobs[j].status = "completed" /\ _jobs[j].progress = 100
    /\ _jobs[k].status = "failed" /\ _jobs[k].error # <<>>

\* ------------------------------------------------- event order of a chat
\* The types of the events written for the current request, in order.
TypeSeq(s) == [i \in DOMAIN out[s] |-> out[s][i].type]

\* Some event of type t stands before position i.
Earlier(types, i, t) == \E j \in 1..(i - 1) : types[j] = t

\* C25: the events of a chat_with_audio request come in the order
\* processing_started, text_response, audio_generation_started, audio_chunk
\* events, audio_generation_complete; no audio event precedes the
\* text_response or audio_generation_started, nothing follows the completion.
C25_ChatEventOrder ==
  \A s \in Sessions :
    handler[s] = "chat_with_audio" =>
      LET types == TypeSeq(s) IN
      \A i \in DOMAIN types :
        /\ types[i] = "text_response" =>
             Earlier(types, i, "processing_started")
        /\ types[i] = "audio_generation_started" =>
             Earlier(types, i, "text_response")
        /\ types[i] = "audio_chunk" =>
             Earlier(types, i, "audio_generation_started")
        /\ types[i] = "audio_generation_complete" =>
             /\ i = Len(types)
             /\ i >= 4
             /\ SubSeq(types, 1, 3) =
                  <<"processing_started", "text_response",
                    "audio_generation_started">>
             /\ \A j \in 4..(i - 1) : types[j] = "audio_chunk"

\* A chat request whose answer was streamed in two chunks to the end.
C25_Witness ==
  \E s \in Sessions :
    /\ handler[s] = "chat_with_audio"
    /\ Returned(s)
    /\ TypeSeq(s) =
         <<"processing_started", "text_response", "audio_generation_started",
           "audio_chunk", "audio_chunk", "audio_generation_complete">>

\* ------------------------------------------------------------ set_language
\* pcs at which the handler hands its language to a collaborator or to the
\* audio pipeline.
LanguageUsePcs == {"cwa_ask", "sc_gen", "tr_call", "job_pull"}

\* What holds of the language of Session s in every state: set_language
\* with a language has set it, and a request without a language field runs
\* with the current language.
LanguageKept(s) ==
  /\ (handler[s] = "set_language" /\ request_language[s] \in Languages) =>
       current_language[s] = request_language[s]
  /\ (handler[s] \in LangHandlers /\ pc[s] \in LanguageUsePcs) =>
       language[s] = IF request_language[s] = "omitted"
                     THEN current_language[s]
                     ELSE request_language[s]

\* What holds of every step: only the reading of a set_language message
\* with a language changes the current language.
LanguageStep(s) ==
  current_language'[s] # current_language[s] =>
    /\ handler'[s] = "set_language"
    /\ nread' = nread + 1
    /\ current_language'[s] = request_language'[s]

\* C26: set_language with a non-empty language sets the current language;
\* chat_with_audio, start_class, audio_only and transcribe_audio requests
\* without a language use the language set last; nothing but set_language
\* changes the current language.
C26_LanguageSetAndUsed ==
  /\ [](\A s \in Sessions : LanguageKept(s))
  /\ [][\A s \in Sessions : LanguageStep(s)]_vars

\* After set_language("hi-IN") a chat request without a language asks the
\* chat service in hi-IN.
C26_Witness ==
  \E s \in Sessions :
    /\ handler[s] = "chat_with_audio"
    /\ pc[s] = "cwa_ask"
    /\ request_language[s] = "omitted"
    /\ current_language[s] = "hi-IN"
    /\ language[s] = "hi-IN"

\* ------------------------------------------------- totals of a completion
\* The sum of the size fields of a sequence of events.
RECURSIVE SumSizes(_)
SumSizes(seq) ==
  IF seq = <<>> THEN 0 ELSE Head(seq).size + SumSizes(Tail(seq))

\* C28: audio_generation_complete carries the number of audio_chunk events
\* written for the job and the sum of their sizes; a provider frame without
\* audio is not written and takes no chunk_id.
C28_TotalsMatchChunks ==
  \A s \in Sessions :
    LET sent == Chunks(out[s]) IN
    /\ \A i \in DOMAIN sent : sent[i].size > 0 /\ sent[i].chunk_id = i
    /\ \A ev \in CompleteEvents(s) :
         /\ ev.total_chunks = Len(sent)
         /\ ev.total_size = SumSizes(sent)

\* A job that dropped an empty frame and completed after two chunks of
\* different sizes.
C28_Witness ==
  \E s \in Sessions :
    /\ skipped[s]
    /\ CompleteEvents(s) # {}
    /\ Len(Chunks(out[s])) = 2
    /\ Chunks(out[s])[1].size # Chunks(out[s])[2].size
    /\ \A ev \in CompleteEvents(s) : ev.total_size = 3

\* ------------------------------------------- one closure, one error count
\* C29 (as claimed): an abnormal closure found by a write of the audio loop
\* adds one to the Session's error counter, and once the job was aborted by
\* it the counter stays as it is, whatever finds the closure again.
C29_ClosureCountedOnce ==
  [][\A s \in Sessions :
       (~Connected(s) /\ ~is_normal_closure(sock[s])) =>
         /\ C4_FoundClosed(s) => errors'[s] = errors[s] + 1
         /\ job[s] = "ABORTED" => errors'[s] = errors[s]]_vars

\* ------------------------------------------- start_class index validation
\* The position, counted from 0, that Python's seq[i] reads.
PyPos(seq, i) == IF i >= 0 THEN i ELSE Len(seq) + i

\* No module or sub-topic was picked.
NoPick == -1

\* Every index of a course of two modules, counted from either end, and
\* one beyond each end.
LoadInputs ==
  [fn : {"start_class"}, exists : BOOLEAN, course : Courses,
   module_index : -3..2, sub_topic_index : -3..2]

\* The load-and-validate block of handle_start_class: where the handler
\* goes, and the module and sub-topic it picked for the teaching content.
validate_indices ==
  /\ arg.fn = "start_class"
  /\ ~ret.done
  /\ LET o == LoadOutcome(arg.exists, arg.course, arg.module_index,
                          arg.sub_topic_index)
         picked == o = "sc_info"
     IN ret' = [done |-> TRUE,
                outcome |-> o,
                event |-> EventAt(o),
                module |-> IF picked
                           THEN PyPos(arg.course.modules, arg.module_index)
                           ELSE NoPick,
                sub_topic |->
                  IF picked
                  THEN PyPos([k \in 1..PyIndex(arg.course.modules,
                                               arg.module_index) |-> k],
                             arg.sub_topic_index)
                  ELSE NoPick,
                audio |-> OkNext(o) = "sc_gen"]
  /\ UNCHANGED <<arg, aside, asked, config, conn, ctl, metrics, jobvars,
                 current_language, out, failed, nread>>

LoadInit ==
  /\ InitWith({})
  /\ services = AllServices
  /\ tts_provider = "elevenlabs"
  /\ Plain
  /\ arg \in LoadInputs
  /\ ret = [done |-> FALSE]

LoadSpec == LoadInit /\ [][validate_indices]_vars

\* The indices name a module of the course and a sub-topic of that module.
NamesSubTopic(course, mi, si) ==
  /\ mi >= 0
  /\ mi < Len(course.modules)
  /\ si >= 0
  /\ si < course.modules[mi + 1]

\* C30 (as claimed): on a loaded course, indices that name no module or
\* sub-topic (too large or negative) give an error event and no audio job;
\* otherwise the module and sub-topic at exactly these indices are used.
C30_IndicesNameSubTopic ==
  (arg.fn = "start_class" /\ ret.done /\ arg.exists /\ arg.course.valid) =>
    IF NamesSubTopic(arg.course, arg.module_index, arg.sub_topic_index)
    THEN /\ ret.audio
         /\ ret.module = arg.module_index
         /\ ret.sub_topic = arg.sub_topic_index
    ELSE ret.event = "error" /\ ~ret.audio

====
